---------------------------- MODULE Spec2Model ----------------------------
(***************************************************************************)
(* Model of the Dynamic Task Manager: the Fibonacci heap                   *)
(* (src/fibonacci_heap.py), the skip list (src/skip_list.py) and the       *)
(* TaskManager that keeps both (src/task_manager.py).                      *)
(*                                                                         *)
(* Objects live in arenas: a heap node is an index 1..Len(h.key) into the  *)
(* sequences of the heap record, a skip list node an index into those of   *)
(* the skip list record (the header is node 1), None is 0.  Every method   *)
(* is a pure operator from a record to a record, translated statement by   *)
(* statement.  Four state machines call them: SpecHeap (insert and         *)
(* extract_min on one heap), SpecSkip (insert and delete on one skip       *)
(* list), SpecCoordinator (add_task, remove_task and update_task on a      *)
(* TaskManager) and SpecManager (those and complete_next_task).            *)
(***************************************************************************)
EXTENDS Integers, Sequences, FiniteSets, TLC

VARIABLES heap,      \* the FibonacciHeap object and the nodes it created
          status,    \* "ok", or how the last call failed to return: "hang", "IndexError"
          lastOp,    \* "none" | "insert" | "extract": the last heap call
          ret,       \* node returned by the last extract_min (None when it returned None)
          live,      \* nodes inserted and not yet returned by extract_min
          returned,  \* nodes returned by extract_min, in order
          sl,        \* the SkipList object and the nodes it created
          ref,       \* reference map: key -> value last inserted and not deleted, or None
          dup,       \* whether some insert used a key that was present
          tm         \* the TaskManager: its tasks, skip list, heap and saved rows

vars == <<heap, status, lastOp, ret, live, returned, sl, ref, dup, tm>>

\* Python's None
None == 0

\* ----------------------------------------------------------------- bounds
MaxNodes == 5        \* heap nodes created in one run
MaxPriority == 3     \* priorities are 1..MaxPriority
MaxSkipNodes == 3    \* skip list nodes created in one run
MaxKey == 3          \* skip list keys are 1..MaxKey
MaxLevel == 2        \* max_level of the skip list of SpecSkip
MaxTasks == 2        \* tasks created in one TaskManager run

Priorities == 1..MaxPriority
Keys == 1..MaxKey
\* program constant: TaskManager builds SkipList(max_level=16)
TMMaxLevel == 16
\* the levels drawn for a task's skip list node: the lowest, and the cap
TMLevels == {0, TMMaxLevel}
\* the fields of the tasks given to the TaskManager (names are ordered as
\* the numbers are)
TaskNames == {1, 2}
TaskPriorities == {1, 2}
DueDates == {1, 2}
Statuses == {"Incomplete", "Complete"}

\* ------------------------------------------------------- fibonacci_heap.py

\* FibonacciHeap.__init__
NewHeap ==
  [key |-> <<>>, value |-> <<>>, degree |-> <<>>, marked |-> <<>>,
   parent |-> <<>>, child |-> <<>>, left |-> <<>>, right |-> <<>>,
   min_node |-> None, total_nodes |-> 0]

\* FibonacciHeapNode.__init__: a fresh node, alone in its own ring
FibonacciHeapNode(h, k, v) ==
  LET n == Len(h.key) + 1
  IN [h EXCEPT !.key = Append(@, k), !.value = Append(@, v),
               !.degree = Append(@, 0), !.marked = Append(@, FALSE),
               !.parent = Append(@, None), !.child = Append(@, None),
               !.left = Append(@, n), !.right = Append(@, n)]

\* FibonacciHeap._add_node: four assignments, in order
FibonacciHeap_add_node(h, node, root) ==
  LET h1 == [h EXCEPT !.left[node] = root]
      h2 == [h1 EXCEPT !.right[node] = h1.right[root]]
      h3 == [h2 EXCEPT !.right[root] = node]
  IN [h3 EXCEPT !.left[h3.right[node]] = node]

\* FibonacciHeap._remove_node: the node's own left and right are not reset
FibonacciHeap_remove_node(h, node) ==
  LET h1 == [h EXCEPT !.right[h.left[node]] = h.right[node]]
  IN [h1 EXCEPT !.left[h1.right[node]] = h1.left[node]]

\* FibonacciHeap._link
FibonacciHeap_link(h, node, root) ==
  LET h1 == FibonacciHeap_remove_node(h, node)
      h2 == [h1 EXCEPT !.parent[node] = root]
      h3 == IF h2.child[root] = None
            THEN [h2 EXCEPT !.child[root] = node]
            ELSE FibonacciHeap_add_node(h2, node, h2.child[root])
      h4 == [h3 EXCEPT !.degree[root] = @ + 1]
  IN [h4 EXCEPT !.marked[node] = FALSE]

\* FibonacciHeap._iterate_list: the nodes yielded from head.  The walk follows
\* right until it is back at head; a walk that has yielded more nodes than
\* exist without coming back never comes back (ok = FALSE: the generator
\* never stops).
RECURSIVE IterFrom(_, _, _, _)
IterFrom(h, head, node, acc) ==
  LET acc2 == Append(acc, node)
      nxt == h.right[node]
  IN IF nxt = head THEN [ok |-> TRUE, nodes |-> acc2]
     ELSE IF Len(acc2) > Len(h.key) THEN [ok |-> FALSE, nodes |-> acc2]
     ELSE IterFrom(h, head, nxt, acc2)

FibonacciHeap_iterate_list(h, head) == IterFrom(h, head, head, <<>>)

\* ConsolidateWhile with the link forgotten: an occupied slot is skipped
RECURSIVE ConsolidateWhile_NoLink(_, _, _, _)
ConsolidateWhile_NoLink(h, table, node, degree) ==
  IF degree > h.total_nodes
  THEN [h |-> h, table |-> table, status |-> "IndexError"]
  ELSE IF table[degree] # None
  THEN ConsolidateWhile_NoLink(h, table, node, degree + 1)
  ELSE [h |-> h, table |-> [table EXCEPT ![degree] = node], status |-> "ok"]

\* ConsolidateWhile with the comparison of line 95 turned round: the root of
\* the smaller priority is linked under the other
RECURSIVE ConsolidateWhile_Less(_, _, _, _)
ConsolidateWhile_Less(h, table, node, degree) ==
  IF degree > h.total_nodes
  THEN [h |-> h, table |-> table, status |-> "IndexError"]
  ELSE IF table[degree] # None
  THEN LET other == table[degree]
           swap == h.key[node] < h.key[other]
           n2 == IF swap THEN other ELSE node
           o2 == IF swap THEN node ELSE other
       IN ConsolidateWhile_Less(FibonacciHeap_link(h, o2, n2),
                                [table EXCEPT ![degree] = None], n2, degree + 1)
  ELSE [h |-> h, table |-> [table EXCEPT ![degree] = node], status |-> "ok"]

\* _consolidate, lines 92-99: the while loop for one root of the snapshot.
\* degree_table has total_nodes + 1 slots; reading past it raises IndexError.
RECURSIVE ConsolidateWhile(_, _, _, _)
ConsolidateWhile(h, table, node, degree) ==
  IF degree > h.total_nodes
  THEN [h |-> h, table |-> table, status |-> "IndexError"]
  ELSE IF table[degree] # None
  THEN LET other == table[degree]
           swap == h.key[node] > h.key[other]
           n2 == IF swap THEN other ELSE node
           o2 == IF swap THEN node ELSE other
       IN ConsolidateWhile(FibonacciHeap_link(h, o2, n2), [table EXCEPT ![degree] = None],
                           n2, degree + 1)
  ELSE [h |-> h, table |-> [table EXCEPT ![degree] = node], status |-> "ok"]

\* _consolidate, lines 90-99: the for loop over the snapshot
RECURSIVE ConsolidateFor(_, _, _, _)
ConsolidateFor(h, table, nodes, i) ==
  IF i > Len(nodes) THEN [h |-> h, table |-> table, status |-> "ok"]
  ELSE LET s == ConsolidateWhile(h, table, nodes[i], h.degree[nodes[i]])
       IN IF s.status # "ok" THEN s
          ELSE ConsolidateFor(s.h, s.table, nodes, i + 1)

\* _consolidate, lines 101-109: the root ring and min_node rebuilt from the table
RECURSIVE ConsolidateRebuild(_, _, _)
ConsolidateRebuild(h, table, d) ==
  IF d > h.total_nodes THEN h
  ELSE LET node == table[d]
           h1 == IF node = None THEN h
                 ELSE IF h.min_node = None THEN [h EXCEPT !.min_node = node]
                 ELSE LET a == FibonacciHeap_add_node(h, node, h.min_node)
                      IN IF a.key[node] < a.key[a.min_node]
                         THEN [a EXCEPT !.min_node = node] ELSE a
       IN ConsolidateRebuild(h1, table, d + 1)

\* FibonacciHeap._consolidate
FibonacciHeap_consolidate(h) ==
  LET it == FibonacciHeap_iterate_list(h, h.min_node)
      table0 == [d \in 0..h.total_nodes |-> None]
  IN IF ~it.ok THEN [h |-> h, status |-> "hang"]
     ELSE LET s == ConsolidateFor(h, table0, it.nodes, 1)
          IN IF s.status # "ok" THEN [h |-> s.h, status |-> s.status]
             ELSE [h |-> ConsolidateRebuild([s.h EXCEPT !.min_node = None],
                                            s.table, 0),
                   status |-> "ok"]

\* extract_min, lines 63-65: the children of min_node spliced into the root ring
RECURSIVE PromoteChildren(_, _, _, _)
PromoteChildren(h, children, i, min_node) ==
  IF i > Len(children) THEN h
  ELSE LET a == FibonacciHeap_add_node(h, children[i], min_node)
       IN PromoteChildren([a EXCEPT !.parent[children[i]] = None],
                          children, i + 1, min_node)

\* FibonacciHeap.insert: the heap after the call (the new node is Len(key))
FibonacciHeap_insert(h, k, v) ==
  LET h0 == FibonacciHeapNode(h, k, v)
      node == Len(h0.key)
      h1 == IF h0.min_node = None THEN [h0 EXCEPT !.min_node = node]
            ELSE LET a == FibonacciHeap_add_node(h0, node, h0.min_node)
                 IN IF a.key[node] < a.key[a.min_node]
                    THEN [a EXCEPT !.min_node = node] ELSE a
  IN [h1 EXCEPT !.total_nodes = @ + 1]

\* extract_min without the test for the empty heap at line 59: the count is
\* decremented (line 72) whether or not there was a node to remove
FibonacciHeap_extract_min_NoEmptyTest(h) ==
  LET min_node == h.min_node
  IN IF min_node = None
     THEN [h |-> [h EXCEPT !.total_nodes = @ - 1], ret |-> None, status |-> "ok"]
     ELSE
       LET it == IF h.child[min_node] # None
                 THEN FibonacciHeap_iterate_list(h, h.child[min_node])
                 ELSE [ok |-> TRUE, nodes |-> <<>>]
       IN IF ~it.ok THEN [h |-> h, ret |-> None, status |-> "hang"]
          ELSE
            LET h1 == PromoteChildren(h, it.nodes, 1, min_node)
                h2 == FibonacciHeap_remove_node(h1, min_node)
            IN IF min_node = h2.right[min_node]
               THEN [h |-> [h2 EXCEPT !.min_node = None, !.total_nodes = @ - 1],
                     ret |-> min_node, status |-> "ok"]
               ELSE LET c == FibonacciHeap_consolidate([h2 EXCEPT !.min_node = h2.right[min_node]])
                    IN IF c.status # "ok"
                       THEN [h |-> c.h, ret |-> None, status |-> c.status]
                       ELSE [h |-> [c.h EXCEPT !.total_nodes = @ - 1],
                             ret |-> min_node, status |-> "ok"]

\* FibonacciHeap.extract_min: the heap after the call, the node returned, and
\* whether the call returned at all
FibonacciHeap_extract_min(h) ==
  LET min_node == h.min_node
  IN IF min_node = None THEN [h |-> h, ret |-> None, status |-> "ok"]
     ELSE
       LET it == IF h.child[min_node] # None
                 THEN FibonacciHeap_iterate_list(h, h.child[min_node])
                 ELSE [ok |-> TRUE, nodes |-> <<>>]
       IN IF ~it.ok THEN [h |-> h, ret |-> None, status |-> "hang"]
          ELSE
            LET h1 == PromoteChildren(h, it.nodes, 1, min_node)
                h2 == FibonacciHeap_remove_node(h1, min_node)
            IN IF min_node = h2.right[min_node]
               THEN [h |-> [h2 EXCEPT !.min_node = None, !.total_nodes = @ - 1],
                     ret |-> min_node, status |-> "ok"]
               ELSE LET c == FibonacciHeap_consolidate([h2 EXCEPT !.min_node = h2.right[min_node]])
                    IN IF c.status # "ok"
                       THEN [h |-> c.h, ret |-> None, status |-> c.status]
                       ELSE [h |-> [c.h EXCEPT !.total_nodes = @ - 1],
                             ret |-> min_node, status |-> "ok"]


\* ------------------------------------------------------------ skip_list.py

\* the header is the first node a SkipList creates
Header == 1

\* SkipListNode.__init__: a fresh node with level + 1 empty forward slots
SkipListNode(s, k, v, level) ==
  [s EXCEPT !.key = Append(@, k), !.value = Append(@, v),
            !.forward = Append(@, [i \in 0..level |-> None])]

\* SkipList.__init__
NewSkipList(max_level) ==
  SkipListNode([key |-> <<>>, value |-> <<>>, forward |-> <<>>,
                level |-> 0, max_level |-> max_level],
               None, None, max_level)

\* the outcomes of the draws one call of random_level can make: draws[j] is
\* whether the j-th random.random() is < 0.5; the loop stops at the latest on
\* the draw it makes at level = max_level
DrawOutcomes(max_level) == [1..(max_level + 1) -> BOOLEAN]

\* RandomLevelWhile without the cap: the level grows as long as the draws say
RECURSIVE RandomLevelWhile_NoCap(_, _, _)
RandomLevelWhile_NoCap(max_level, draws, level) ==
  IF level + 1 <= Len(draws) /\ draws[level + 1]
  THEN RandomLevelWhile_NoCap(max_level, draws, level + 1)
  ELSE level

\* random_level, lines 31-33: the while loop from `level`, which has made
\* `level` draws so far
RECURSIVE RandomLevelWhile(_, _, _)
RandomLevelWhile(max_level, draws, level) ==
  IF draws[level + 1] /\ level < max_level
  THEN RandomLevelWhile(max_level, draws, level + 1)
  ELSE level

\* SkipList.random_level: the levels the loop can return, one per outcome of
\* the draws
SkipList_random_level(s) ==
  {RandomLevelWhile(s.max_level, draws, 0) : draws \in DrawOutcomes(s.max_level)}

\* DescendWhile with the comparison turned round
RECURSIVE DescendWhile_Greater(_, _, _, _)
DescendWhile_Greater(s, current, i, k) ==
  LET nxt == s.forward[current][i]
  IN IF nxt # None /\ s.key[nxt] > k THEN DescendWhile_Greater(s, nxt, i, k)
     ELSE current

\* DescendWhile with <= for <: the descent goes past the nodes of key k
RECURSIVE DescendWhile_LessEq(_, _, _, _)
DescendWhile_LessEq(s, current, i, k) ==
  LET nxt == s.forward[current][i]
  IN IF nxt # None /\ s.key[nxt] <= k THEN DescendWhile_LessEq(s, nxt, i, k)
     ELSE current

\* the inner while of the descent (lines 46-47, 75-76, 100-101)
RECURSIVE DescendWhile(_, _, _, _)
DescendWhile(s, current, i, k) ==
  LET nxt == s.forward[current][i]
  IN IF nxt # None /\ s.key[nxt] < k THEN DescendWhile(s, nxt, i, k)
     ELSE current

\* the descent for i in range(self.level, -1, -1) (lines 45-48, 74-77, 99-101):
\* the node reached and the update array
RECURSIVE DescendFor(_, _, _, _, _)
DescendFor(s, current, i, k, update) ==
  IF i < 0 THEN [current |-> current, update |-> update]
  ELSE LET c == DescendWhile(s, current, i, k)
       IN DescendFor(s, c, i - 1, k, [update EXCEPT ![i] = c])

Descend(s, k) ==
  DescendFor(s, Header, s.level, k, [i \in 0..s.max_level |-> None])

\* insert, lines 61-63: the new node spliced in at levels 0..level
RECURSIVE InsertSplice(_, _, _, _, _)
InsertSplice(s, update, new_node, i, level) ==
  IF i > level THEN s
  ELSE LET s1 == [s EXCEPT !.forward[new_node][i] = s.forward[update[i]][i]]
           s2 == [s1 EXCEPT !.forward[update[i]][i] = new_node]
       IN InsertSplice(s2, update, new_node, i + 1, level)

\* SkipList.insert, with the level random_level() returned
SkipList_insert(s, k, v, level) ==
  LET d == Descend(s, k)
      update == IF level > s.level
                THEN [i \in 0..s.max_level |->
                        IF i > s.level /\ i <= level THEN Header ELSE d.update[i]]
                ELSE d.update
      s1 == IF level > s.level THEN [s EXCEPT !.level = level] ELSE s
      s2 == SkipListNode(s1, k, v, level)
  IN InsertSplice(s2, update, Len(s2.key), 0, level)

\* DeleteUnlink stopping after level 0: the upper levels keep the node
DeleteUnlink_Level0Only(s, update, current, i) ==
  IF i > 0 THEN s
  ELSE IF s.forward[update[i]][i] # current THEN s
  ELSE [s EXCEPT !.forward[update[i]][i] = s.forward[current][i]]

\* delete, lines 83-86: unlink current level by level, stopping at the first
\* level whose predecessor does not point to it
RECURSIVE DeleteUnlink(_, _, _, _)
DeleteUnlink(s, update, current, i) ==
  IF i > s.level THEN s
  ELSE IF s.forward[update[i]][i] # current THEN s
  ELSE DeleteUnlink([s EXCEPT !.forward[update[i]][i] = s.forward[current][i]],
                    update, current, i + 1)

\* DeleteShrink forgotten: the level stays where it was
DeleteShrink_Never(s) == s

\* delete, lines 89-90: the level shrinks while its top chain is empty
RECURSIVE DeleteShrink(_)
DeleteShrink(s) ==
  IF s.level > 0 /\ s.forward[Header][s.level] = None
  THEN DeleteShrink([s EXCEPT !.level = @ - 1])
  ELSE s

\* SkipList.delete without the test of the key found: the level-0 successor
\* of the descent is unlinked whatever its key
SkipList_delete_AnyKey(s, k) ==
  LET d == Descend(s, k)
      current == s.forward[d.current][0]
  IN IF current # None
     THEN DeleteShrink(DeleteUnlink(s, d.update, current, 0))
     ELSE s

\* SkipList.delete
SkipList_delete(s, k) ==
  LET d == Descend(s, k)
      current == s.forward[d.current][0]
  IN IF current # None /\ s.key[current] = k
     THEN DeleteShrink(DeleteUnlink(s, d.update, current, 0))
     ELSE s

\* the node search stops at (lines 98-102), None when there is none
SearchNode(s, k) == s.forward[Descend(s, k).current][0]

\* SkipList.search without the test of the key found
SkipList_search_AnyKey(s, k) ==
  LET current == SearchNode(s, k)
  IN IF current # None THEN s.value[current] ELSE None

\* SkipList.search
SkipList_search(s, k) ==
  LET current == SearchNode(s, k)
  IN IF current # None /\ s.key[current] = k THEN s.value[current] ELSE None

\* the nodes reached from node n by following forward[i], in order (the
\* traversal of task_manager.py lines 58-67 and 107-110 is the one at level 0
\* from the header); it stops after as many nodes as exist
RECURSIVE ChainFrom(_, _, _, _)
ChainFrom(s, n, i, acc) ==
  LET nxt == s.forward[n][i]
  IN IF nxt = None \/ Len(acc) >= Len(s.key) THEN acc
     ELSE ChainFrom(s, nxt, i, Append(acc, nxt))

Chain(s, i) == ChainFrom(s, Header, i, <<>>)

\* ---------------------------------------------------------- task_manager.py

\* Task.__init__ (status defaults to 'Incomplete')
Task(name, priority, due_date) ==
  [name |-> name, priority |-> priority, due_date |-> due_date,
   status |-> "Incomplete"]

\* TaskManager.__init__ with no Excel file to load: tasks is the arena of the
\* Task objects created, excel the rows last saved
NewTaskManager ==
  [tasks |-> <<>>, skip_list |-> NewSkipList(TMMaxLevel), fib_heap |-> NewHeap,
   excel |-> <<>>]

\* the tasks held by the skip list nodes, in traversal order
\* (lines 58-67, 107-110)
TraversalTasks(t) ==
  LET c == Chain(t.skip_list, 0)
  IN [i \in 1..Len(c) |-> t.skip_list.value[c[i]]]

\* TaskManager._save_tasks_to_excel: one row per task of the traversal
TaskManager_save_tasks_to_excel(t) ==
  LET ids == TraversalTasks(t)
  IN [t EXCEPT !.excel = [i \in 1..Len(ids) |-> t.tasks[ids[i]]]]

\* _rebuild_heap, lines 112-113
RECURSIVE RebuildInsert(_, _, _, _)
RebuildInsert(h, tasks, ids, i) ==
  IF i > Len(ids) THEN h
  ELSE RebuildInsert(FibonacciHeap_insert(h, tasks[ids[i]].priority, ids[i]),
                     tasks, ids, i + 1)

\* TaskManager._rebuild_heap
TaskManager_rebuild_heap(t) ==
  [t EXCEPT !.fib_heap = RebuildInsert(NewHeap, t.tasks, TraversalTasks(t), 1)]

\* TaskManager.add_task(task) with save=True; response is the answer typed at
\* the prompt, level the level random_level() returned
TaskManager_add_task(t, task, response, level) ==
  LET existing_task == SkipList_search(t.skip_list, task.name)
  IN IF existing_task # None
        /\ t.tasks[existing_task].due_date = task.due_date
        /\ response # "yes"
     THEN t
     ELSE LET id == Len(t.tasks) + 1
              t1 == [t EXCEPT !.tasks = Append(@, task)]
              t2 == [t1 EXCEPT !.skip_list =
                       SkipList_insert(@, task.name, id, level)]
              t3 == [t2 EXCEPT !.fib_heap =
                       FibonacciHeap_insert(@, task.priority, id)]
          IN TaskManager_save_tasks_to_excel(t3)

\* TaskManager.remove_task without the rebuild of the heap
TaskManager_remove_task_NoRebuild(t, task_name) ==
  LET task == SkipList_search(t.skip_list, task_name)
  IN IF task # None
     THEN TaskManager_save_tasks_to_excel(
            [t EXCEPT !.skip_list = SkipList_delete(@, task_name)])
     ELSE t

\* TaskManager.remove_task
TaskManager_remove_task(t, task_name) ==
  LET task == SkipList_search(t.skip_list, task_name)
  IN IF task # None
     THEN LET t1 == [t EXCEPT !.skip_list = SkipList_delete(@, task_name)]
          IN TaskManager_save_tasks_to_excel(TaskManager_rebuild_heap(t1))
     ELSE t

\* TaskManager.update_task without the rebuild of the heap
TaskManager_update_task_NoRebuild(t, task_name, updates) ==
  LET task == SkipList_search(t.skip_list, task_name)
      Val(S) == CHOOSE v \in S : TRUE
  IN IF task # None
     THEN LET t1 == IF updates.priority # {}
                    THEN [t EXCEPT !.tasks[task].priority = Val(updates.priority)]
                    ELSE t
              t2 == IF updates.due_date # {}
                    THEN [t1 EXCEPT !.tasks[task].due_date = Val(updates.due_date)]
                    ELSE t1
              t3 == IF updates.status # {}
                    THEN [t2 EXCEPT !.tasks[task].status = Val(updates.status)]
                    ELSE t2
          IN TaskManager_save_tasks_to_excel(t3)
     ELSE t

\* TaskManager.update_task; updates gives for each field the set holding its
\* new value, empty when the field is not among the keyword arguments
TaskManager_update_task(t, task_name, updates) ==
  LET task == SkipList_search(t.skip_list, task_name)
      Val(S) == CHOOSE v \in S : TRUE
  IN IF task # None
     THEN LET t1 == IF updates.priority # {}
                    THEN [t EXCEPT !.tasks[task].priority = Val(updates.priority)]
                    ELSE t
              t2 == IF updates.due_date # {}
                    THEN [t1 EXCEPT !.tasks[task].due_date = Val(updates.due_date)]
                    ELSE t1
              t3 == IF updates.status # {}
                    THEN [t2 EXCEPT !.tasks[task].status = Val(updates.status)]
                    ELSE t2
          IN TaskManager_save_tasks_to_excel(TaskManager_rebuild_heap(t3))
     ELSE t

\* TaskManager._iterate_list: as FibonacciHeap._iterate_list, but a None head
\* yields nothing
TaskManager_iterate_list(h, head) ==
  IF head = None THEN [ok |-> TRUE, nodes |-> <<>>]
  ELSE IterFrom(h, head, head, <<>>)

\* min(tasks, key=lambda t: t.priority): the first task of the least priority
MinByPriority(tasks, ids) ==
  LET i == CHOOSE i \in 1..Len(ids) :
             /\ \A j \in 1..Len(ids) :
                  tasks[ids[i]].priority <= tasks[ids[j]].priority
             /\ \A j \in 1..(i - 1) :
                  tasks[ids[j]].priority > tasks[ids[i]].priority
  IN ids[i]

\* TaskManager.get_next_task: the task returned (None for None) and whether
\* the call returned at all; it changes nothing
TaskManager_get_next_task(t) ==
  LET h == t.fib_heap
      it == TaskManager_iterate_list(h, h.min_node)
      values == [i \in 1..Len(it.nodes) |-> h.value[it.nodes[i]]]
      incomplete_tasks ==
        SelectSeq(values, LAMBDA v : t.tasks[v].status = "Incomplete")
  IN IF ~it.ok THEN [ret |-> None, status |-> "hang"]
     ELSE IF incomplete_tasks # <<>>
     THEN [ret |-> MinByPriority(t.tasks, incomplete_tasks), status |-> "ok"]
     ELSE [ret |-> None, status |-> "ok"]

\* complete_next_task, lines 131-135: what follows the call of extract_min,
\* whose outcome is e
CompleteAfterExtract(t, e) ==
  LET t1 == [t EXCEPT !.fib_heap = e.h]
  IN IF e.status # "ok" THEN [t |-> t1, ret |-> None, status |-> e.status]
     ELSE IF e.ret # None
     THEN LET task == e.h.value[e.ret]
              t2 == [t1 EXCEPT !.skip_list =
                       SkipList_delete(@, t1.tasks[task].name)]
          IN [t |-> TaskManager_save_tasks_to_excel(t2), ret |-> task,
              status |-> "ok"]
     ELSE [t |-> t1, ret |-> None, status |-> "ok"]

\* TaskManager.complete_next_task: the manager after the call, the task
\* returned (None for None) and whether the call returned at all; e is the
\* outcome of the one call of extract_min (line 130)
TaskManager_complete_next_task(t) ==
  CHOOSE r \in {CompleteAfterExtract(t, e) :
                  e \in {FibonacciHeap_extract_min(t.fib_heap)}} : TRUE

\* -------------------------------------------------- the Python object store

\* The arenas stand for Python's object store, where an object nothing refers
\* to any more is freed.  Collect frees the skip list nodes that no forward
\* pointer chain from the header reaches, and the tasks that no such node and
\* no heap node holds: a freed slot holds a fixed record.
\* the skip list nodes some chain of forward pointers from the header reaches
SkipReach(s) ==
  LET Next1(n) == {s.forward[n][i] : i \in DOMAIN s.forward[n]}
      Step(S) == S \cup (UNION {Next1(n) : n \in S} \ {None})
      RECURSIVE Fix(_)
      Fix(S) == IF Step(S) = S THEN S ELSE Fix(Step(S))
  IN Fix({Header})

FreedNode == [i \in 0..0 |-> None]

CollectSkip(s) ==
  LET R == SkipReach(s)
  IN [s EXCEPT
        !.key = [n \in 1..Len(s.key) |-> IF n \in R THEN s.key[n] ELSE None],
        !.value = [n \in 1..Len(s.key) |-> IF n \in R THEN s.value[n] ELSE None],
        !.forward = [n \in 1..Len(s.key) |->
                       IF n \in R THEN s.forward[n] ELSE FreedNode]]

FreedTask == [name |-> 0, priority |-> 0, due_date |-> 0, status |-> "freed"]

Collect(t) ==
  LET s == t.skip_list
      used == {s.value[n] : n \in SkipReach(s) \ {Header}}
                \cup {t.fib_heap.value[n] : n \in 1..Len(t.fib_heap.key)}
  IN [t EXCEPT
        !.skip_list = CollectSkip(s),
        !.tasks = [i \in 1..Len(t.tasks) |-> IF i \in used THEN t.tasks[i] ELSE FreedTask]]

\* ------------------------------------------------------ the state machines

Init ==
  /\ heap = NewHeap
  /\ status = "ok"
  /\ lastOp = "none"
  /\ ret = None
  /\ live = {}
  /\ returned = <<>>
  /\ sl = NewSkipList(MaxLevel)
  /\ ref = [k \in Keys |-> None]
  /\ dup = FALSE
  /\ tm = NewTaskManager

heapVars == <<heap, status, lastOp, ret, live, returned>>
skipVars == <<sl, ref, dup>>

\* a call of FibonacciHeap.insert(key, value); the value is the node's number
Insert ==
  /\ status = "ok"
  /\ Len(heap.key) < MaxNodes
  /\ \E k \in Priorities :
       /\ heap' = FibonacciHeap_insert(heap, k, Len(heap.key) + 1)
       /\ live' = live \cup {Len(heap.key) + 1}
  /\ lastOp' = "insert"
  /\ UNCHANGED <<status, ret, returned, skipVars, tm>>

\* a call of FibonacciHeap.extract_min(); a call that does not return leaves
\* status other than "ok" and nothing is called after it
ExtractMin ==
  /\ status = "ok"
  /\ LET r == FibonacciHeap_extract_min(heap)
     IN /\ heap' = r.h
        /\ status' = r.status
        /\ ret' = r.ret
        /\ live' = IF r.ret # None THEN live \ {r.ret} ELSE live
        /\ returned' = IF r.ret # None THEN Append(returned, r.ret) ELSE returned
  /\ lastOp' = "extract"
  /\ UNCHANGED <<skipVars, tm>>

NextHeap == Insert \/ ExtractMin

SpecHeap == Init /\ [][NextHeap]_vars

\* a call of SkipList.insert(key, value); every insert stores a value of its
\* own (10 + the new node's number)
SkipInsert ==
  /\ Len(sl.key) - 1 < MaxSkipNodes
  /\ \E k \in Keys, level \in SkipList_random_level(sl) :
       LET v == 10 + Len(sl.key) + 1
       IN /\ sl' = SkipList_insert(sl, k, v, level)
          /\ ref' = [ref EXCEPT ![k] = v]
          /\ dup' = (dup \/ ref[k] # None)
  /\ UNCHANGED <<heapVars, tm>>

\* a call of SkipList.delete(key)
SkipDelete ==
  /\ \E k \in Keys :
       /\ sl' = CollectSkip(SkipList_delete(sl, k))
       /\ ref' = [ref EXCEPT ![k] = None]
  /\ UNCHANGED <<dup, heapVars, tm>>

NextSkip == SkipInsert \/ SkipDelete

SpecSkip == Init /\ [][NextSkip]_vars

\* the keyword arguments tried: no field, any one field, or all three
Updates ==
  LET All == [priority : {{}} \cup {{p} : p \in TaskPriorities},
              due_date : {{}} \cup {{d} : d \in DueDates},
              status : {{}} \cup {{x} : x \in Statuses}]
      Given(u) == Cardinality({f \in {"priority", "due_date", "status"} : u[f] # {}})
  IN {u \in All : Given(u) \in {0, 1, 3}}

\* a call of TaskManager.add_task(Task(name, priority, due_date))
AddTask ==
  /\ Len(tm.tasks) < MaxTasks
  /\ \E name \in TaskNames, priority \in TaskPriorities, due_date \in DueDates,
        response \in {"yes", "no"}, level \in TMLevels :
       tm' = TaskManager_add_task(tm, Task(name, priority, due_date),
                                  response, level)
  /\ UNCHANGED <<heapVars, skipVars>>

\* a call of TaskManager.remove_task(task_name)
RemoveTask ==
  /\ \E name \in TaskNames : tm' = Collect(TaskManager_remove_task(tm, name))
  /\ UNCHANGED <<heapVars, skipVars>>

\* a call of TaskManager.update_task(task_name, **updates)
UpdateTask ==
  /\ \E name \in TaskNames, updates \in Updates :
       tm' = TaskManager_update_task(tm, name, updates)
  /\ UNCHANGED <<heapVars, skipVars>>

NextCoordinator == AddTask \/ RemoveTask \/ UpdateTask

SpecCoordinator == Init /\ [][NextCoordinator]_vars

\* SpecManager adds complete_next_task to the calls of SpecCoordinator and
\* lets one more task be created: a consolidation needs three heap nodes to
\* have two roots to link.  Its tasks all have one due date (a second task of
\* a name is added on the answer yes), every skip list node has the level 0
\* that random_level returns when its first draw is >= 0.5, and an update
\* gives no due date.
ManagerAddTask ==
  /\ Len(tm.tasks) < MaxTasks + 1
  /\ \E name \in TaskNames, priority \in TaskPriorities,
        response \in {"yes", "no"} :
       tm' = TaskManager_add_task(tm, Task(name, priority, 1), response, 0)
  /\ UNCHANGED <<heapVars, skipVars>>

ManagerUpdateTask ==
  /\ \E name \in TaskNames,
        updates \in {u \in Updates : u.due_date = {}} :
       tm' = TaskManager_update_task(tm, name, updates)
  /\ UNCHANGED <<heapVars, skipVars>>

\* a call of TaskManager.complete_next_task() that returns; a call that does
\* not return has no state after it
CompleteNextTask ==
  /\ \E r \in {TaskManager_complete_next_task(tm)} :
       /\ r.status = "ok"
       /\ tm' = Collect(r.t)
  /\ UNCHANGED <<heapVars, skipVars>>

NextManager ==
  ManagerAddTask \/ RemoveTask \/ ManagerUpdateTask \/ CompleteNextTask

SpecManager == Init /\ [][NextManager]_vars

\* ------------------------------------------------------------ the claims

RangeOf(q) == {q[i] : i \in 1..Len(q)}

\* the nodes a walk along right from head visits (all of them, whether or not
\* the walk comes back to head)
HeapWalk(h, head) ==
  IF head = None THEN {} ELSE RangeOf(FibonacciHeap_iterate_list(h, head).nodes)

\* whether the walk along right from head comes back to head
RingClosed(h, head) == FibonacciHeap_iterate_list(h, head).ok

\* the nodes reachable from min_node through the root ring and, recursively,
\* the child rings
RECURSIVE HeapClosure(_, _)
HeapClosure(h, S) ==
  LET S2 == S \cup {h.right[n] : n \in S} \cup ({h.child[n] : n \in S} \ {None})
  IN IF S2 = S THEN S ELSE HeapClosure(h, S2)

HeapReach(h) == IF h.min_node = None THEN {} ELSE HeapClosure(h, {h.min_node})

RECURSIVE FloorLog2(_)
FloorLog2(n) == IF n <= 1 THEN 0 ELSE 1 + FloorLog2(n \div 2)

RootRing == HeapWalk(heap, heap.min_node)
ChildRing(n) == HeapWalk(heap, heap.child[n])

\* C1 (min-correctness): whenever the heap is non-empty, min_node is a live
\* node whose priority is <= that of every live node, and the node the last
\* extract_min returned is not reachable from the heap.
C1_MinCorrectness ==
  status = "ok" =>
    /\ live # {} =>
         /\ heap.min_node \in live
         /\ \A n \in live : heap.key[heap.min_node] <= heap.key[n]
    /\ (lastOp = "extract" /\ ret # None) => ret \notin HeapReach(heap)

\* C2 (extraction order): an extract_min called on a non-empty heap returns a
\* node whose priority is the least among the nodes that were live, and no
\* node is returned twice.
C2_ExtractionOrder ==
  /\ (lastOp = "extract" /\ (live # {} \/ ret # None)) =>
       /\ status = "ok"
       /\ ret # None
       /\ \A n \in live : heap.key[ret] <= heap.key[n]
  /\ Cardinality(RangeOf(returned)) = Len(returned)

\* C3 (termination): from every state reached by calls that returned, the next
\* extract_min returns: each ring walk it makes comes back to its start.
C3_ExtractMinTerminates ==
  status = "ok" => FibonacciHeap_extract_min(heap).status # "hang"

\* C7 (ring well-formedness): on every live node left and right are inverse,
\* the children form a closed ring (a sole child points to itself) and degree
\* is the number of nodes of that ring.
C7_RingsWellFormed ==
  status = "ok" =>
    \A n \in live :
      /\ heap.left[heap.right[n]] = n
      /\ heap.right[heap.left[n]] = n
      /\ heap.child[n] = None => heap.degree[n] = 0
      /\ heap.child[n] # None =>
           /\ RingClosed(heap, heap.child[n])
           /\ heap.degree[n] = Cardinality(ChildRing(n))
           /\ heap.degree[n] = 1 => heap.right[heap.child[n]] = heap.child[n]

\* C8 (node count): total_nodes is the number of nodes reachable from min_node
\* and the number of inserts minus the number of nodes extract_min returned;
\* min_node is None exactly when total_nodes is 0.
C8_NodeCount ==
  status = "ok" =>
    /\ heap.total_nodes = Cardinality(HeapReach(heap))
    /\ heap.total_nodes = Len(heap.key) - Len(returned)
    /\ (heap.min_node = None) <=> (heap.total_nodes = 0)

\* C9 (role partition): every live node is either in the root ring with no
\* parent or in the child ring of the node its parent field names, never both
\* and never neither; a returned node is in no ring of the heap.
C9_RolePartition ==
  status = "ok" =>
    /\ \A n \in live :
         /\ (n \in RootRing) # (\E p \in live : n \in ChildRing(p))
         /\ n \in RootRing => heap.parent[n] = None
         /\ \A p \in live : n \in ChildRing(p) => heap.parent[n] = p
    /\ \A n \in RangeOf(returned) :
         /\ n \notin RootRing
         /\ \A p \in live : n \notin ChildRing(p)

\* C10 (tree-count bound): right after an extract_min that returned a node
\* and left the heap non-empty, the nodes of the root ring are live roots of
\* pairwise different degree, and there are at most floor(log2(total_nodes)) + 1
\* of them.
C10_TreeCountBound ==
  (status = "ok" /\ lastOp = "extract" /\ ret # None /\ heap.min_node # None) =>
    /\ \A m, n \in RootRing : m # n => heap.degree[m] # heap.degree[n]
    /\ \A n \in RootRing : n \in live /\ heap.parent[n] = None
    /\ Cardinality(RootRing) <= FloorLog2(heap.total_nodes) + 1

\* an extract_min whose consolidation linked roots and left two roots
C10_Witness ==
  /\ status = "ok" /\ lastOp = "extract" /\ ret # None
  /\ Cardinality(RootRing) >= 2
  /\ \E n \in RootRing : heap.degree[n] >= 1

\* the keys of the level-0 traversal
TraversalKeys(s) == [i \in 1..Len(Chain(s, 0)) |-> s.key[Chain(s, 0)[i]]]

\* C4 (agreement with a reference map): as long as no insert used a key that
\* was present, search(k) returns the value inserted for k when k was inserted
\* and not deleted since, and None otherwise.
C4_SearchAgreesWithMap ==
  ~dup => \A k \in Keys : SkipList_search(sl, k) = ref[k]

\* two keys found, one key deleted and not found
C4_Witness ==
  /\ ~dup
  /\ Len(sl.key) - 1 = 3
  /\ \E k1, k2, k3 \in Keys :
       /\ k1 # k2 /\ ref[k1] # None /\ ref[k2] # None /\ ref[k3] = None
       /\ SkipList_search(sl, k1) = ref[k1]
       /\ SkipList_search(sl, k3) = None
  /\ Len(Chain(sl, 0)) = 2

\* C5 as claimed (ordering, any keys): the level-0 traversal yields strictly
\* increasing keys.
C5_StrictlyIncreasing ==
  \A i \in 1..(Len(TraversalKeys(sl)) - 1) :
    TraversalKeys(sl)[i] < TraversalKeys(sl)[i + 1]

\* C5 as amended: the level-0 traversal yields non-decreasing keys, and
\* strictly increasing keys as long as no insert used a key that was present.
C5_NonDecreasing ==
  /\ \A i \in 1..(Len(TraversalKeys(sl)) - 1) :
       TraversalKeys(sl)[i] <= TraversalKeys(sl)[i + 1]
  /\ ~dup => C5_StrictlyIncreasing

\* a key inserted twice, next to a different key
C5_Witness ==
  /\ dup
  /\ \E i, j \in 1..(Len(TraversalKeys(sl)) - 1) :
       /\ TraversalKeys(sl)[i] = TraversalKeys(sl)[i + 1]
       /\ TraversalKeys(sl)[j] < TraversalKeys(sl)[j + 1]

\* C6 (membership agreement): the tasks of the skip list's level-0 traversal
\* are the tasks held by the heap nodes reachable from min_node.
C6_MembershipAgreement ==
  RangeOf(TraversalTasks(tm))
    = {tm.fib_heap.value[n] : n \in HeapReach(tm.fib_heap)}

\* two tasks added and one of them removed: the other is in both structures
C6_Witness ==
  /\ Len(tm.tasks) = 2
  /\ FreedTask \in RangeOf(tm.tasks)
  /\ Len(TraversalTasks(tm)) = 1
  /\ tm.fib_heap.total_nodes = 1

\* the keys present in the index: those of the nodes of the level-0 chain
PresentKeys(s) == RangeOf(TraversalKeys(s))

\* C11 (idempotent delete): delete(k) for a key k that is not present changes
\* nothing: the nodes, every forward pointer at every level and the current
\* level are as before, in every reachable index and in the empty one.
C11_DeleteAbsentIsNoOp ==
  \A k \in Keys : k \notin PresentKeys(sl) => SkipList_delete(sl, k) = sl

\* an index of two levels holding a smaller and a greater key than an absent
\* one, which a delete leaves as it is
C11_Witness ==
  /\ sl.level >= 1
  /\ \E k \in Keys :
       /\ k \notin PresentKeys(sl)
       /\ \E a, b \in PresentKeys(sl) : a < k /\ k < b
       /\ SkipList_delete(sl, k) = sl

\* the tower height of node n: its forward array has slots 0..height
Height(s, n) == Cardinality(DOMAIN s.forward[n]) - 1

\* the nodes of the level-0 chain whose tower reaches level i, in chain order
TowerChain(s, i) == SelectSeq(Chain(s, 0), LAMBDA n : Height(s, n) >= i)

\* C12 (tower property): at every level i the chain from the header along
\* forward[i] holds exactly the nodes of the level-0 chain whose tower height
\* is >= i, in the order of the level-0 chain; so a node linked at level i is
\* linked at every level below i.
C12_TowerProperty ==
  \A i \in 0..sl.max_level :
    /\ Chain(sl, i) = TowerChain(sl, i)
    /\ i > 0 => RangeOf(Chain(sl, i)) \subseteq RangeOf(Chain(sl, i - 1))

\* after a delete, an index with two nodes of one key where the upper chain
\* skips a node of the level-0 chain
C12_Witness ==
  /\ \E n \in 1..Len(sl.key) : n # Header /\ n \notin SkipReach(sl)
  /\ \E i, j \in 1..Len(Chain(sl, 0)) :
       i # j /\ sl.key[Chain(sl, 0)[i]] = sl.key[Chain(sl, 0)[j]]
  /\ Len(Chain(sl, 1)) >= 1
  /\ Len(Chain(sl, 1)) < Len(Chain(sl, 0))

\* the greatest tower height among the nodes of the level-0 chain, 0 when
\* the index is empty
MaxHeight(s) ==
  LET hs == {Height(s, n) : n \in RangeOf(Chain(s, 0))} \cup {0}
  IN CHOOSE h \in hs : \A g \in hs : g <= h

\* C19 (level tracking): the header's forward[i] is empty above the current
\* level and non-empty at a current level > 0, so the level is the greatest
\* tower height among the present nodes; and the node a delete removes is
\* reachable from the header at no level afterwards.
C19_LevelTracking ==
  /\ \A i \in 0..sl.max_level : i > sl.level => sl.forward[Header][i] = None
  /\ sl.level > 0 => sl.forward[Header][sl.level] # None
  /\ sl.level = MaxHeight(sl)
  /\ \A k \in PresentKeys(sl) :
       SearchNode(sl, k) \notin SkipReach(SkipList_delete(sl, k))

\* after a delete, an index whose tallest node a further delete removes,
\* bringing the level down to the height of a node that is left
C19_Witness ==
  /\ \E n \in 1..Len(sl.key) : n # Header /\ n \notin SkipReach(sl)
  /\ \E k \in PresentKeys(sl) :
       LET s2 == SkipList_delete(sl, k)
       IN /\ s2.level < sl.level
          /\ s2.level > 0
          /\ s2.forward[Header][s2.level] # None
          /\ SearchNode(sl, k) \notin SkipReach(s2)

\* the update array insert(k, value) uses when random_level() returned level
\* (lines 41-55)
InsertUpdate(s, k, level) ==
  [i \in 0..s.max_level |->
     IF i > s.level /\ i <= level THEN Header ELSE Descend(s, k).update[i]]

\* C20 (level cap): whatever the draws, random_level returns a level in
\* 0..max_level; the current level and every tower height are <= max_level;
\* and the slots insert and delete touch, update[i] and update[i].forward[i],
\* exist: i <= max_level and i <= the height of update[i].
C20_LevelCap ==
  /\ \A draws \in DrawOutcomes(sl.max_level) :
       RandomLevelWhile(sl.max_level, draws, 0) \in 0..sl.max_level
  /\ SkipList_random_level(sl) = 0..sl.max_level
  /\ sl.level <= sl.max_level
  /\ Height(sl, Header) = sl.max_level
  /\ \A n \in 1..Len(sl.key) : Height(sl, n) <= sl.max_level
  /\ \A k \in Keys :
       /\ \A level \in SkipList_random_level(sl) : \A i \in 0..level :
            /\ i <= sl.max_level
            /\ InsertUpdate(sl, k, level)[i] # None
            /\ i <= Height(sl, InsertUpdate(sl, k, level)[i])
       /\ \A i \in 0..sl.level :
            /\ Descend(sl, k).update[i] # None
            /\ i <= Height(sl, Descend(sl, k).update[i])

\* a node inserted with the level the loop returns when every draw is < 0.5:
\* its tower and the index are at the cap
C20_Witness ==
  /\ sl.level = sl.max_level
  /\ \E n \in RangeOf(Chain(sl, 0)) :
       Height(sl, n) = RandomLevelWhile(sl.max_level,
                                        [j \in 1..(sl.max_level + 1) |-> TRUE], 0)
  /\ Len(Chain(sl, 0)) >= 2

\* C13 (extract_min on the empty heap): when the heap holds no node, min_node
\* is None and total_nodes is 0, and extract_min returns None and leaves the
\* heap as it is; total_nodes is never negative.
C13_ExtractMinOnEmpty ==
  status = "ok" =>
    /\ heap.total_nodes >= 0
    /\ (live = {} \/ heap.min_node = None \/ heap.total_nodes = 0) =>
         /\ live = {} /\ heap.min_node = None /\ heap.total_nodes = 0
         /\ FibonacciHeap_extract_min(heap)
              = [h |-> heap, ret |-> None, status |-> "ok"]

\* extract_min has returned None on a heap that nodes were inserted into and
\* extracted from before
C13_Witness ==
  /\ status = "ok" /\ lastOp = "extract" /\ ret = None
  /\ Len(returned) >= 2
  /\ live = {} /\ heap.min_node = None /\ heap.total_nodes = 0

\* C14 (insert is lazy and local): a call of insert creates one node and puts
\* it in the root ring, adds one to total_nodes, moves min_node only to the
\* new node and only when the heap was empty or the new priority is strictly
\* smaller than that of min_node, and leaves the priority, parent, child and
\* degree of every other node and the other members of the root ring as they
\* were.  The root ring is the nodes the walk along right from min_node
\* visits.
C14_InsertIsLocal ==
  [][lastOp' = "insert" =>
       LET node == Len(heap'.key)
       IN /\ Len(heap'.key) = Len(heap.key) + 1
          /\ heap'.total_nodes = heap.total_nodes + 1
          /\ heap'.parent[node] = None /\ heap'.child[node] = None
          /\ heap'.degree[node] = 0
          /\ HeapWalk(heap', heap'.min_node)
               = HeapWalk(heap, heap.min_node) \cup {node}
          /\ heap'.min_node \in {heap.min_node, node}
          /\ heap'.min_node # heap.min_node =>
               \/ heap.min_node = None
               \/ heap'.key[node] < heap.key[heap.min_node]
          /\ \A n \in 1..Len(heap.key) :
               /\ heap'.key[n] = heap.key[n]
               /\ heap'.parent[n] = heap.parent[n]
               /\ heap'.child[n] = heap.child[n]
               /\ heap'.degree[n] = heap.degree[n]]_vars

\* C17 (heap order): every node that has a parent has a priority >= its
\* parent's; so of two roots of different priority that a consolidation
\* links, the one of the larger priority is the child.
C17_HeapOrder ==
  \A n \in 1..Len(heap.key) :
    heap.parent[n] # None => heap.key[n] >= heap.key[heap.parent[n]]

\* an extract_min whose consolidation linked a root under a root of strictly
\* smaller priority, and another under a root of its own priority
C17_Witness ==
  /\ status = "ok" /\ lastOp = "extract" /\ ret # None
  /\ \E n \in live :
       heap.parent[n] # None /\ heap.key[n] > heap.key[heap.parent[n]]
  /\ \E n \in live :
       heap.parent[n] # None /\ heap.key[n] = heap.key[heap.parent[n]]

\* the tasks held by the nodes of the skip list's level-0 chain, and by the
\* heap nodes reachable from min_node
SkipTasks(t) == RangeOf(TraversalTasks(t))
HeapTasks(t) == {t.fib_heap.value[n] : n \in HeapReach(t.fib_heap)}

\* the nodes of each structure that hold task x
SkipNodesOf(t, x) ==
  {i \in 1..Len(TraversalTasks(t)) : TraversalTasks(t)[i] = x}
HeapNodesOf(t, x) ==
  {n \in HeapReach(t.fib_heap) : t.fib_heap.value[n] = x}

\* C15 (complete_next_task removes one task from both structures): a call of
\* complete_next_task that returns task x leaves x in neither the skip list
\* nor the heap and removes no other task from either, so that afterwards
\* both hold the same tasks, each in exactly one node of each structure.
C15_CompleteRemovesFromBoth ==
  LET r == TaskManager_complete_next_task(tm)
  IN (r.status = "ok" /\ r.ret # None) =>
       /\ r.ret \notin SkipTasks(r.t)
       /\ r.ret \notin HeapTasks(r.t)
       /\ SkipTasks(r.t) = SkipTasks(tm) \ {r.ret}
       /\ HeapTasks(r.t) = HeapTasks(tm) \ {r.ret}
       /\ SkipTasks(r.t) = HeapTasks(r.t)
       /\ \A x \in SkipTasks(r.t) :
            /\ Cardinality(SkipNodesOf(r.t, x)) = 1
            /\ Cardinality(HeapNodesOf(r.t, x)) = 1

\* the tasks of status 'Incomplete' among those the heap holds
IncompleteTasks(t) ==
  {x \in HeapTasks(t) : t.tasks[x].status = "Incomplete"}

\* C16 (get_next_task returns the most urgent incomplete task): the call
\* returns; a task it returns is an 'Incomplete' task of the heap whose
\* priority is <= that of every 'Incomplete' task of the heap; and it returns
\* None only when the heap holds no 'Incomplete' task.
C16_NextTaskIsMostUrgent ==
  LET r == TaskManager_get_next_task(tm)
  IN /\ r.status = "ok"
     /\ r.ret # None =>
          /\ r.ret \in IncompleteTasks(tm)
          /\ \A x \in IncompleteTasks(tm) :
               tm.tasks[r.ret].priority <= tm.tasks[x].priority
     /\ r.ret = None => IncompleteTasks(tm) = {}

\* whether every heap node's key is the priority of the task it holds
KeysTrackPriorities(t) ==
  \A n \in 1..Len(t.fib_heap.key) :
    t.fib_heap.key[n] = t.tasks[t.fib_heap.value[n]].priority

\* C18 (heap keys track task priorities): after any calls of add_task,
\* update_task, remove_task and complete_next_task, the key of every heap
\* node is the current priority of the task the node holds.
C18_HeapKeysTrackPriorities == KeysTrackPriorities(tm)

\* a heap that a complete_next_task has consolidated, holding a task whose
\* priority an update_task changes: the rebuilt heap has the new priority as
\* that task's key
C18_Witness ==
  /\ \E n \in HeapReach(tm.fib_heap) : tm.fib_heap.parent[n] # None
  /\ KeysTrackPriorities(tm)
  /\ \E name \in TaskNames, p \in TaskPriorities :
       LET x == SkipList_search(tm.skip_list, name)
           t2 == TaskManager_update_task(
                   tm, name, [priority |-> {p}, due_date |-> {}, status |-> {}])
       IN /\ x # None
          /\ tm.tasks[x].priority # p
          /\ t2.tasks[x].priority = p
          /\ \E n \in HeapReach(t2.fib_heap) :
               t2.fib_heap.value[n] = x /\ t2.fib_heap.key[n] = p
          /\ KeysTrackPriorities(t2)

\* the positions in the level-0 chain of the nodes of key k (nodes are
\* numbered in the order of their creation)
PositionsOf(s, k) == {i \in 1..Len(Chain(s, 0)) : s.key[Chain(s, 0)[i]] = k}

\* the chain of level i without node n
ChainWithout(s, i, n) == SelectSeq(Chain(s, i), LAMBDA m : m # n)

\* the value search(k) is to return once the node at the front of the nodes
\* of key k is gone: that of the node behind it, None when there is none
ValueBehind(s, k) ==
  LET c == Chain(s, 0)
      p == PositionsOf(s, k)
      first == CHOOSE i \in p : \A j \in p : i <= j
  IN IF Cardinality(p) >= 2 THEN s.value[c[first + 1]] ELSE None

\* C21 (duplicate keys): the nodes of one key stand next to each other in the
\* level-0 chain, the later inserted in front; search(k) returns the value of
\* the latest; one delete(k) removes that node alone, from every level, and
\* search(k) then returns the value of the one inserted before it.
C21_DuplicateKeys ==
  /\ \A k \in PresentKeys(sl) :
       \A c \in {Chain(sl, 0)}, p \in {PositionsOf(sl, k)},
          s3 \in {SkipList_delete(sl, k)} :
         /\ \A i, j \in p : i < j =>
              /\ c[i] > c[j]
              /\ \A m \in i..j : m \in p
         /\ \E i \in p :
              /\ \A j \in p : i <= j
              /\ SearchNode(sl, k) = c[i]
              /\ SkipList_search(sl, k) = sl.value[c[i]]
              /\ c[i] \notin SkipReach(s3)
              /\ \A l \in 0..sl.max_level :
                   Chain(s3, l) = ChainWithout(sl, l, c[i])
         /\ SkipList_search(s3, k) = ValueBehind(sl, k)

\* a key inserted twice, the later node taller than the earlier and found by
\* search; the delete of the key leaves the earlier node to be found
C21_Witness ==
  /\ dup
  /\ \E k \in PresentKeys(sl) :
       \E i, j \in PositionsOf(sl, k) :
         /\ i < j
         /\ Height(sl, Chain(sl, 0)[i]) > Height(sl, Chain(sl, 0)[j])
         /\ SkipList_search(sl, k) = sl.value[Chain(sl, 0)[i]]
         /\ SkipList_search(SkipList_delete(sl, k), k) = sl.value[Chain(sl, 0)[j]]
         /\ Chain(sl, 0)[i] \notin SkipReach(SkipList_delete(sl, k))

=============================================================================
